---- MODULE Spec2Model ----
(***************************************************************************)
(* Model of jni/com_android_bluetooth_iap2.cpp: the JNI binding between    *)
(* Iap2StateMachine (the Java listener) and the native IAP2 profile        *)
(* interface (btiap2_interface_t).                                         *)
(*                                                                         *)
(* Every JNI entry point and every transport callback is one action.  The  *)
(* record op holds the last operation: its name, its inputs, the calls it  *)
(* made on its collaborators, in program order (the native interface, the  *)
(* JNI reference table, the listener), and what it returned.               *)
(***************************************************************************)
EXTENDS Integers, Sequences, FiniteSets, TLC

VARIABLES
    sBluetoothInterface,      \* what getBluetoothInterface() returns
    sBluetoothIap2Interface,  \* static of line 41
    mCallbacksObj,            \* static of line 42: a JNI global reference
    sCallbackEnv,             \* static of line 43
    callbackEnv,              \* what getCallbackEnv() returns
    globalRefs,               \* the live JNI global references
    nextRef,                  \* number of global references created so far
    halInstances,             \* native instances inited and not cleaned up
    pendingException,         \* a Java exception is pending on the callback env
    nativeBuf,                \* the transport's receive buffer
    op,                       \* the last operation
    history,                  \* the operations so far, where a specification records them
    pc                        \* the line a running initializeNative or cleanupNative is at

vars == <<sBluetoothInterface, sBluetoothIap2Interface, mCallbacksObj,
          sCallbackEnv, callbackEnv, globalRefs, nextRef, halInstances,
          pendingException, nativeBuf, op, history, pc>>

(***************************************************************************)
(* Bounds of the model.                                                    *)
(***************************************************************************)
MaxRefs == 2        \* global references created in one run
MaxLen == 2         \* largest length sendData and data_callback are given
MaxHistory == 5     \* operations a recording specification runs

(***************************************************************************)
(* Values.                                                                 *)
(***************************************************************************)
NULL == 0
BtInterface == 1            \* the loaded bluetooth module's bt_interface_t
Iap2Interface == 1          \* the btiap2_interface_t of BT_PROFILE_IAP2_ID
AddrLen == 6                \* sizeof(bt_bdaddr_t)
NullObj == <<>>             \* a null jobject argument
Envs == {1, 2}              \* JNIEnv pointers of attached threads
Statuses == {"BT_STATUS_SUCCESS", "BT_STATUS_FAIL"}
States == {"DISCONNECTED", "CONNECTING", "CONNECTED", "DISCONNECTING"}
UChars == {0, 200}          \* the unsigned char values the model draws from
Fds == {7, 8}
ErrorCodes == {"BTIAP2_ERROR"}
ErrorStrings == {"link lost"}

\* bt_bdaddr_t values as the transport holds them: six unsigned bytes.
Addr1 == <<170, 187, 204, 221, 238, 255>>
Addr2 == <<0, 17, 34, 51, 68, 127>>
BdAddrs == {Addr1, Addr2}

RECURSIVE SeqsUpTo(_, _)
SeqsUpTo(S, n) ==
    IF n = 0 THEN {<<>>}
    ELSE LET shorter == SeqsUpTo(S, n - 1)
         IN  shorter \cup {Append(s, x) : s \in {t \in shorter : Len(t) = n - 1}, x \in S}

\* jbyte <-> unsigned char.  A Java byte is signed; the pointer casts of
\* lines 71, 101, 119, 228, 247 and 267 reinterpret the same eight bits.
ToJByte(u) == IF u >= 128 THEN u - 256 ELSE u
ToUChar(j) == j % 256
ToJBytes(us) == [i \in 1..Len(us) |-> ToJByte(us[i])]
ToUChars(js) == [i \in 1..Len(js) |-> ToUChar(js[i])]

JAddrs == {ToJBytes(a) : a \in BdAddrs}          \* byte[6] the caller passes
JBuffers == {ToJBytes(b) : b \in {<<>>, <<200>>, <<0, 200>>}}   \* byte[] the caller passes
RxBuffers == {<<0, 200>>, <<131, 5>>}            \* contents of the receive buffer

Void == "void"
NoCalls == <<>>
Op(name, in, calls, ret) == [name |-> name, in |-> in, calls |-> calls, ret |-> ret]

Init ==
    /\ sBluetoothInterface \in {NULL, BtInterface}
    /\ sBluetoothIap2Interface = NULL
    /\ mCallbacksObj = NULL
    /\ sCallbackEnv = NULL
    /\ callbackEnv = NULL
    /\ globalRefs = {}
    /\ nextRef = 0
    /\ halInstances = 0
    /\ pendingException = FALSE
    /\ nativeBuf = <<0, 200>>
    /\ op = Op("classInitNative", [none |-> TRUE], NoCalls, Void)
    /\ history = <<>>
    /\ pc = "idle"

Call(fn) == [fn |-> fn]
Fns(calls) == [i \in 1..Len(calls) |-> calls[i].fn]
CallsTo(calls, fn) == SelectSeq(calls, LAMBDA c : c.fn = fn)

\* The calls into btiap2_interface_t, the native transport.
TransportFns == {"connect", "disconnect", "send_data"}
TransportCalls(calls) == SelectSeq(calls, LAMBDA c : c.fn \in TransportFns)

\* com_android_bluetooth.h: the AdapterService binding's module pointer, set
\* once when the bluetooth module is loaded and never reset.
getBluetoothInterface == sBluetoothInterface

(***************************************************************************)
(* initializeNative and cleanupNative.                                     *)
(***************************************************************************)
\* Lines 166-170 and 202-206 without the assignment of NULL.
ReleaseInterface_PointerKept ==
    IF sBluetoothIap2Interface # NULL
    THEN [iface |-> sBluetoothIap2Interface,
          hal   |-> IF halInstances > 0 THEN halInstances - 1 ELSE 0,
          calls |-> <<Call("cleanup")>>]
    ELSE [iface |-> sBluetoothIap2Interface, hal |-> halInstances, calls |-> NoCalls]

\* Lines 166-170 and 202-206 without the call of cleanup().
ReleaseInterface_NoNativeCleanup ==
    [iface |-> NULL, hal |-> halInstances, calls |-> NoCalls]

\* Lines 166-170 and 202-206: clean up the active native instance.
ReleaseInterface ==
    IF sBluetoothIap2Interface # NULL
    THEN [iface |-> NULL,
          hal   |-> IF halInstances > 0 THEN halInstances - 1 ELSE 0,
          calls |-> <<Call("cleanup")>>]
    ELSE [iface |-> sBluetoothIap2Interface, hal |-> halInstances, calls |-> NoCalls]

\* Lines 172-176 and 208-212 without the DeleteGlobalRef.
ReleaseCallbacks_NotDeleted ==
    [obj |-> NULL, refs |-> globalRefs, calls |-> NoCalls]

\* Lines 172-176 and 208-212 left out: the listener's reference stays.
ReleaseCallbacks_Skipped ==
    [obj |-> mCallbacksObj, refs |-> globalRefs, calls |-> NoCalls]

\* Lines 172-176 and 208-212: release the listener's global reference.
ReleaseCallbacks ==
    IF mCallbacksObj # NULL
    THEN [obj   |-> NULL,
          refs  |-> globalRefs \ {mCallbacksObj},
          calls |-> <<[fn |-> "DeleteGlobalRef", ref |-> mCallbacksObj]>>]
    ELSE [obj |-> mCallbacksObj, refs |-> globalRefs, calls |-> NoCalls]

\* Line 184 with the status of init() ignored.
InterfaceAfterInit_StatusIgnored(profile, status) == profile

\* Line 184: what the binding keeps of the profile interface after init().
InterfaceAfterInit(profile, status) ==
    IF status # "BT_STATUS_SUCCESS" THEN NULL ELSE profile

\* profile: what get_profile_interface(BT_PROFILE_IAP2_ID) returns;
\* status: what init(&sBluetoothIap2Callbacks) returns.
initializeNative(profile, status) ==
    IF getBluetoothInterface = NULL
    THEN /\ op' = Op("initializeNative", [profile |-> NULL, status |-> "-"], NoCalls, Void)
         /\ UNCHANGED <<sBluetoothInterface, sBluetoothIap2Interface, mCallbacksObj,
                        sCallbackEnv, callbackEnv, globalRefs, nextRef, halInstances,
                        pendingException, nativeBuf>>
    ELSE LET ri == ReleaseInterface
             rc == ReleaseCallbacks
             lookup == <<[fn |-> "get_profile_interface", result |-> profile]>>
             init == <<[fn |-> "init", status |-> status]>>
             ref == nextRef + 1
         IN  /\ IF profile = NULL
                THEN /\ sBluetoothIap2Interface' = NULL
                     /\ mCallbacksObj' = rc.obj
                     /\ globalRefs' = rc.refs
                     /\ halInstances' = ri.hal
                     /\ nextRef' = nextRef
                     /\ op' = Op("initializeNative", [profile |-> profile, status |-> "-"],
                                 ri.calls \o rc.calls \o lookup, Void)
                ELSE IF InterfaceAfterInit(profile, status) = NULL
                THEN /\ sBluetoothIap2Interface' = NULL
                     /\ mCallbacksObj' = rc.obj
                     /\ globalRefs' = rc.refs
                     /\ halInstances' = ri.hal
                     /\ nextRef' = nextRef
                     /\ op' = Op("initializeNative", [profile |-> profile, status |-> status],
                                 ri.calls \o rc.calls \o lookup \o init, Void)
                ELSE /\ nextRef < MaxRefs
                     /\ sBluetoothIap2Interface' = InterfaceAfterInit(profile, status)
                     /\ mCallbacksObj' = ref
                     /\ globalRefs' = rc.refs \cup {ref}
                     /\ halInstances' = ri.hal + 1
                     /\ nextRef' = ref
                     /\ op' = Op("initializeNative", [profile |-> profile, status |-> status],
                                 ri.calls \o rc.calls \o lookup \o init
                                   \o <<[fn |-> "NewGlobalRef", ref |-> ref]>>, Void)
             /\ UNCHANGED <<sBluetoothInterface, sCallbackEnv, callbackEnv,
                            pendingException, nativeBuf>>

cleanupNative ==
    IF getBluetoothInterface = NULL
    THEN /\ op' = Op("cleanupNative", [none |-> TRUE], NoCalls, Void)
         /\ UNCHANGED <<sBluetoothInterface, sBluetoothIap2Interface, mCallbacksObj,
                        sCallbackEnv, callbackEnv, globalRefs, nextRef, halInstances,
                        pendingException, nativeBuf>>
    ELSE LET ri == ReleaseInterface
             rc == ReleaseCallbacks
         IN  /\ sBluetoothIap2Interface' = ri.iface
             /\ halInstances' = ri.hal
             /\ mCallbacksObj' = rc.obj
             /\ globalRefs' = rc.refs
             /\ op' = Op("cleanupNative", [none |-> TRUE], ri.calls \o rc.calls, Void)
             /\ UNCHANGED <<sBluetoothInterface, sCallbackEnv, callbackEnv, nextRef,
                            pendingException, nativeBuf>>

(***************************************************************************)
(* connectIap2Native, disconnectIap2Native, sendDataNative.                *)
(***************************************************************************)
\* The guard of lines 220, 239, 259 left out.
InterfaceReady_Unguarded == TRUE

\* Lines 220, 239, 259: the guard on the interface pointer.
InterfaceReady == sBluetoothIap2Interface # NULL

\* Lines 232, 251, 271 with the status of the native call ignored.
JBoolean_AlwaysTrue(status) == "JNI_TRUE"

\* Lines 232, 251, 271.
JBoolean(status) == IF status = "BT_STATUS_SUCCESS" THEN "JNI_TRUE" ELSE "JNI_FALSE"

\* Lines 215-233 and 235-252 differ in the native function alone.
\* readable: GetByteArrayElements returned the array's bytes.
AddressRequest(name, fn, address, readable, status) ==
    /\ IF ~InterfaceReady
       THEN op' = Op(name, [address |-> address, readable |-> TRUE, status |-> "-"],
                     NoCalls, "JNI_FALSE")
       ELSE IF ~readable
       THEN op' = Op(name, [address |-> address, readable |-> FALSE, status |-> "-"],
                     <<[fn |-> "jniThrowIOException", errno |-> "EINVAL"]>>, "JNI_FALSE")
       ELSE op' = Op(name, [address |-> address, readable |-> TRUE, status |-> status],
                     <<[fn |-> fn, addr |-> ToUChars(address), status |-> status]>>,
                     JBoolean(status))
    /\ UNCHANGED <<sBluetoothInterface, sBluetoothIap2Interface, mCallbacksObj,
                   sCallbackEnv, callbackEnv, globalRefs, nextRef, halInstances,
                   pendingException, nativeBuf>>

connectIap2Native(address, readable, status) ==
    AddressRequest("connectIap2Native", "connect", address, readable, status)

disconnectIap2Native(address, readable, status) ==
    AddressRequest("disconnectIap2Native", "disconnect", address, readable, status)

\* Line 267: the len bytes send_data reads at buf.  The array holds Len(data)
\* bytes; any byte read past it is whatever follows the array in memory.
BytesRead(len, data, beyond) ==
    IF len <= Len(data) THEN SubSeq(ToUChars(data), 1, len)
    ELSE ToUChars(data) \o beyond

\* Line 267: the call sendDataNative makes for (len, data).
SendCall(len, data, beyond, status) ==
    <<[fn |-> "send_data", len |-> len, bytes |-> BytesRead(len, data, beyond),
       status |-> status]>>

\* beyond: the memory after the array, read when len exceeds its length.
sendDataNative(len, data, readable, status, beyond) ==
    /\ Len(beyond) = (IF len > Len(data) THEN len - Len(data) ELSE 0)
    /\ IF ~InterfaceReady
       THEN op' = Op("sendDataNative",
                     [len |-> len, data |-> data, readable |-> TRUE, status |-> "-"],
                     NoCalls, "JNI_FALSE")
       ELSE IF ~readable
       THEN op' = Op("sendDataNative",
                     [len |-> len, data |-> data, readable |-> FALSE, status |-> "-"],
                     <<[fn |-> "jniThrowIOException", errno |-> "EINVAL"]>>, "JNI_FALSE")
       ELSE op' = Op("sendDataNative",
                     [len |-> len, data |-> data, readable |-> TRUE, status |-> status],
                     SendCall(len, data, beyond, status), JBoolean(status))
    /\ UNCHANGED <<sBluetoothInterface, sBluetoothIap2Interface, mCallbacksObj,
                   sCallbackEnv, callbackEnv, globalRefs, nextRef, halInstances,
                   pendingException, nativeBuf>>


(***************************************************************************)
(* The callback table: the four callbacks the transport stack invokes.     *)
(***************************************************************************)
\* Line 51 inside the test that lines 50 and 52 hold commented out: the env
\* is fetched only while none is cached.
ResolveCallbackEnv_Cached == IF sCallbackEnv = NULL THEN callbackEnv ELSE sCallbackEnv

\* Line 51: the designated env is fetched afresh for every callback.
ResolveCallbackEnv == callbackEnv

\* Line 54 without the comparison with the calling thread's env.
checkCallbackThread_NotNullOnly(env) == ResolveCallbackEnv # NULL

\* Lines 53-55.  env: AndroidRuntime::getJNIEnv() of the calling thread.
checkCallbackThread(env) ==
    ~(ResolveCallbackEnv # env \/ ResolveCallbackEnv = NULL)

\* A Java byte[]: a fresh array owns its bytes; alias marks an object that
\* would share the transport's buffer instead.
NewByteArray(n) == [alias |-> FALSE, len |-> n, bytes |-> [i \in 1..n |-> 0]]

\* SetByteArrayRegion(array, 0, n, src): copy n bytes of src into the array.
SetByteArrayRegion(array, n, src) ==
    IF array.alias THEN array
    ELSE [array EXCEPT !.bytes =
             [i \in 1..array.len |-> IF i <= n THEN ToJByte(src[i]) ELSE array.bytes[i]]]

\* What a holder of the array reads in the current state.
Contents(array) ==
    IF array.alias
    THEN [i \in 1..array.len |-> IF i <= Len(nativeBuf) THEN ToJByte(nativeBuf[i]) ELSE 0]
    ELSE array.bytes

\* jniCreateFileDescriptor(env, fd): a java.io.FileDescriptor wrapping fd,
\* or null.
jniCreateFileDescriptor(fd, ok) == IF ok THEN <<fd>> ELSE NullObj

\* Lines 92-99 with the test of the state left out.
FileDescriptorFor_AnyState(state, fd, ok) ==
    [obj   |-> jniCreateFileDescriptor(fd, ok),
     calls |-> <<[fn |-> "jniCreateFileDescriptor", local |-> "fileDescriptor",
                  fd |-> fd, ok |-> ok]>>]

\* Lines 80 and 92-99: the handle of a service-state event, and the call
\* that constructs it.
FileDescriptorFor(state, fd, ok) ==
    IF state = "CONNECTED"
    THEN [obj   |-> jniCreateFileDescriptor(fd, ok),
          calls |-> <<[fn |-> "jniCreateFileDescriptor", local |-> "fileDescriptor",
                       fd |-> fd, ok |-> ok]>>]
    ELSE [obj |-> NullObj, calls |-> NoCalls]

\* Lines 64 and 71 without the SetByteArrayRegion.
AddrArray_NotFilled(bd_addr) == NewByteArray(AddrLen)

\* Lines 64 and 71, 85 and 101: the byte[6] that carries bd_addr.
AddrArray(bd_addr) == SetByteArrayRegion(NewByteArray(AddrLen), AddrLen, bd_addr)

\* Lines 147-152: the listener methods classInitNative resolves.
method_onConnectionStateChanged == "onConnectionStateChanged"
method_onServiceStateChanged_Swapped == "onConnectionStateChanged"
method_onServiceStateChanged == "onServiceStateChanged"
method_onDataRx == "onDataRx"
method_onError == "onError"

\* The listener call with a state the binding sets itself.
CallVoidMethod_StateAsserted(method, args, throws) ==
    [fn |-> "CallVoidMethod", obj |-> mCallbacksObj, method |-> method,
     args |-> IF "state" \in DOMAIN args THEN [args EXCEPT !.state = "CONNECTED"] ELSE args,
     throws |-> throws]

\* Lines 72, 102, 120, 129: the call of a listener method.
CallVoidMethod(method, args, throws) ==
    [fn |-> "CallVoidMethod", obj |-> mCallbacksObj, method |-> method, args |-> args,
     throws |-> throws]

\* checkAndClearExceptionFromCallback left out after the listener call.
ClearException_Skipped(pending) == NoCalls

\* checkAndClearExceptionFromCallback: clears a pending exception.
ClearException(pending) ==
    IF pending THEN <<Call("ExceptionClear")>> ELSE NoCalls

ListenerCalls(calls) == CallsTo(calls, "CallVoidMethod")

\* The transport holds the callback table from init() to cleanup().
CallbacksRegistered == halInstances > 0

\* CHECK_CALLBACK_ENV failed: the callback returns at line 24.
DropCallback(name, in) ==
    /\ op' = Op(name, in, NoCalls, Void)
    /\ sCallbackEnv' = ResolveCallbackEnv
    /\ UNCHANGED <<sBluetoothInterface, sBluetoothIap2Interface, mCallbacksObj,
                   callbackEnv, globalRefs, nextRef, halInstances,
                   pendingException, nativeBuf>>

\* The callback ran to a return with `calls` made; the exception state of
\* the callback env is `pending` on return.
RunCallback(name, in, calls, pending) ==
    /\ op' = Op(name, in, calls, Void)
    /\ sCallbackEnv' = ResolveCallbackEnv
    /\ pendingException' = pending
    /\ UNCHANGED <<sBluetoothInterface, sBluetoothIap2Interface, mCallbacksObj,
                   callbackEnv, globalRefs, nextRef, halInstances, nativeBuf>>

\* Lines 65-69, 86-90, 113-117: NewByteArray returned null.
AllocFailed(local) ==
    <<[fn |-> "NewByteArray", local |-> local, ok |-> FALSE], Call("ExceptionClear")>>

\* Lines 58-76.  allocOk: NewByteArray succeeded; throws: the listener threw.
connection_state_callback(state, bd_addr, env, allocOk, throws) ==
    /\ CallbacksRegistered
    /\ LET in == [state |-> state, bd_addr |-> bd_addr, env |-> env,
                  allocOk |-> allocOk, throws |-> throws]
           addr == AddrArray(bd_addr)
       IN  IF ~checkCallbackThread(env)
           THEN DropCallback("connection_state_callback", in)
           ELSE IF ~allocOk
           THEN RunCallback("connection_state_callback", in, AllocFailed("addr"), FALSE)
           ELSE RunCallback("connection_state_callback", in,
                    <<[fn |-> "NewByteArray", local |-> "addr", ok |-> TRUE],
                      CallVoidMethod(method_onConnectionStateChanged,
                                     [state |-> state, addr |-> addr], throws)>>
                    \o ClearException(throws \/ pendingException)
                    \o <<[fn |-> "DeleteLocalRef", local |-> "addr"]>>,
                    FALSE)

\* Line 94 without the test of the object jniCreateFileDescriptor returned.
HandleMissing_Unchecked(state, fileDescriptor) == FALSE

\* Lines 92-94: the handle of a CONNECTED state could not be constructed.
HandleMissing(state, fileDescriptor) ==
    state = "CONNECTED" /\ fileDescriptor = NullObj

\* Lines 78-106.  fdOk: jniCreateFileDescriptor succeeded.
service_state_callback(state, bd_addr, fd, env, allocOk, fdOk, throws) ==
    /\ CallbacksRegistered
    /\ LET in == [state |-> state, bd_addr |-> bd_addr, fd |-> fd, env |-> env,
                  allocOk |-> allocOk, fdOk |-> fdOk, throws |-> throws]
           addr == AddrArray(bd_addr)
           created == FileDescriptorFor(state, fd, fdOk)
           fileDescriptor == created.obj
       IN  IF ~checkCallbackThread(env)
           THEN DropCallback("service_state_callback", in)
           ELSE IF ~allocOk
           THEN RunCallback("service_state_callback", in, AllocFailed("addr"), FALSE)
           ELSE IF HandleMissing(state, fileDescriptor)
           THEN RunCallback("service_state_callback", in,
                    <<[fn |-> "NewByteArray", local |-> "addr", ok |-> TRUE]>>
                    \o created.calls
                    \o <<[fn |-> "DeleteLocalRef", local |-> "addr"]>>,
                    TRUE)
           ELSE RunCallback("service_state_callback", in,
                    <<[fn |-> "NewByteArray", local |-> "addr", ok |-> TRUE]>>
                    \o created.calls
                    \o <<CallVoidMethod(method_onServiceStateChanged,
                                        [state |-> state, addr |-> addr,
                                         fileDescriptor |-> fileDescriptor], throws)>>
                    \o ClearException(throws \/ pendingException)
                    \o <<[fn |-> "DeleteLocalRef", local |-> "addr"]>>,
                    FALSE)

\* An array object that shares the transport's buffer instead of copying it.
DataArray_Shared(len, data) == [alias |-> TRUE, len |-> len, bytes |-> <<>>]

\* Lines 112 and 119: the array handed to onDataRx for len bytes at data.
DataArray(len, data) == SetByteArrayRegion(NewByteArray(len), len, data)

\* Lines 108-123.  data points at the transport's receive buffer.
data_callback(len, env, allocOk, throws) ==
    /\ CallbacksRegistered
    /\ len <= Len(nativeBuf)
    /\ LET in == [len |-> len, data |-> nativeBuf, env |-> env,
                  allocOk |-> allocOk, throws |-> throws]
       IN  IF ~checkCallbackThread(env)
           THEN DropCallback("data_callback", in)
           ELSE IF ~allocOk
           THEN RunCallback("data_callback", in, AllocFailed("buf"), FALSE)
           ELSE RunCallback("data_callback", in,
                    <<[fn |-> "NewByteArray", local |-> "buf", ok |-> TRUE],
                      CallVoidMethod(method_onDataRx,
                                     [len |-> len, buf |-> DataArray(len, nativeBuf)],
                                     throws)>>
                    \o ClearException(throws \/ pendingException)
                    \o <<[fn |-> "DeleteLocalRef", local |-> "buf"]>>,
                    FALSE)

\* Lines 126-134.  strOk: NewStringUTF succeeded; its result is not checked.
error_callback(error_code, error_string, env, strOk, throws) ==
    /\ CallbacksRegistered
    /\ LET in == [error_code |-> error_code, error_string |-> error_string, env |-> env,
                  strOk |-> strOk, throws |-> throws]
           js_error_string == IF strOk THEN <<error_string>> ELSE NullObj
       IN  IF ~checkCallbackThread(env)
           THEN DropCallback("error_callback", in)
           ELSE RunCallback("error_callback", in,
                    <<[fn |-> "NewStringUTF", local |-> "js_error_string", ok |-> strOk],
                      CallVoidMethod(method_onError,
                                     [error_code |-> error_code,
                                      js_error_string |-> js_error_string], throws)>>
                    \o ClearException(throws \/ ~strOk \/ pendingException)
                    \o <<[fn |-> "DeleteLocalRef", local |-> "js_error_string"]>>,
                    FALSE)

(***************************************************************************)
(* The environment: the AdapterService binding and the transport stack.    *)
(***************************************************************************)
\* ASSOCIATE_JVM / DISASSOCIATE_JVM: the callback thread attaches to or
\* detaches from the VM and the designated env changes.
callback_thread_event(env) ==
    /\ env # callbackEnv
    /\ callbackEnv' = env
    /\ UNCHANGED <<sBluetoothInterface, sBluetoothIap2Interface, mCallbacksObj,
                   sCallbackEnv, globalRefs, nextRef, halInstances,
                   pendingException, nativeBuf, op>>

\* The transport stack writes received bytes into its buffer.
TransportWritesBuffer(bytes) ==
    /\ bytes # nativeBuf
    /\ nativeBuf' = bytes
    /\ UNCHANGED <<sBluetoothInterface, sBluetoothIap2Interface, mCallbacksObj,
                   sCallbackEnv, callbackEnv, globalRefs, nextRef, halInstances,
                   pendingException, op>>

\* An outcome is drawn only where the code reaches the call that yields it.
OnlyIf(reached, default) == IF reached THEN BOOLEAN ELSE {default}
StatusesIf(reached) == IF reached THEN Statuses ELSE {"-"}
BeyondIf(reached, len, data) ==
    {b \in SeqsUpTo(UChars, MaxLen) :
        Len(b) = (IF reached /\ len > Len(data) THEN len - Len(data) ELSE 0)}
\* The descriptor the transport passes along with a service state.
FdsOf(state) == IF state = "CONNECTED" THEN Fds ELSE {-1}

Next ==
    \/ \E profile \in {NULL, Iap2Interface} :
         \E status \in StatusesIf(getBluetoothInterface # NULL /\ profile # NULL) :
           initializeNative(profile, status) /\ UNCHANGED <<history, pc>>
    \/ cleanupNative /\ UNCHANGED <<history, pc>>
    \/ \E address \in JAddrs, readable \in OnlyIf(InterfaceReady, TRUE) :
         \E status \in StatusesIf(InterfaceReady /\ readable) :
           connectIap2Native(address, readable, status) /\ UNCHANGED <<history, pc>>
    \/ \E address \in JAddrs, readable \in OnlyIf(InterfaceReady, TRUE) :
         \E status \in StatusesIf(InterfaceReady /\ readable) :
           disconnectIap2Native(address, readable, status) /\ UNCHANGED <<history, pc>>
    \/ \E len \in 0..MaxLen, data \in JBuffers, readable \in OnlyIf(InterfaceReady, TRUE) :
         \E status \in StatusesIf(InterfaceReady /\ readable),
            beyond \in BeyondIf(InterfaceReady /\ readable, len, data) :
           sendDataNative(len, data, readable, status, beyond) /\ UNCHANGED <<history, pc>>
    \/ \E state \in States, bd_addr \in BdAddrs, env \in Envs \cup {NULL} :
         \E allocOk \in OnlyIf(checkCallbackThread(env), TRUE) :
           \E throws \in OnlyIf(checkCallbackThread(env) /\ allocOk, FALSE) :
             connection_state_callback(state, bd_addr, env, allocOk, throws) /\ UNCHANGED <<history, pc>>
    \/ \E state \in States, bd_addr \in BdAddrs, env \in Envs \cup {NULL} :
         \E fd \in FdsOf(state), allocOk \in OnlyIf(checkCallbackThread(env), TRUE) :
           \E fdOk \in OnlyIf(checkCallbackThread(env) /\ allocOk /\ state = "CONNECTED", TRUE) :
             \E throws \in OnlyIf(checkCallbackThread(env) /\ allocOk /\ fdOk, FALSE) :
               service_state_callback(state, bd_addr, fd, env, allocOk, fdOk, throws) /\ UNCHANGED <<history, pc>>
    \/ \E len \in 0..MaxLen, env \in Envs \cup {NULL} :
         \E allocOk \in OnlyIf(checkCallbackThread(env), TRUE) :
           \E throws \in OnlyIf(checkCallbackThread(env) /\ allocOk, FALSE) :
             data_callback(len, env, allocOk, throws) /\ UNCHANGED <<history, pc>>
    \/ \E error_code \in ErrorCodes, error_string \in ErrorStrings, env \in Envs \cup {NULL} :
         \E strOk \in OnlyIf(checkCallbackThread(env), TRUE) :
           \E throws \in OnlyIf(checkCallbackThread(env), FALSE) :
             error_callback(error_code, error_string, env, strOk, throws) /\ UNCHANGED <<history, pc>>
    \/ \E env \in Envs \cup {NULL} : callback_thread_event(env) /\ UNCHANGED <<history, pc>>
    \/ \E bytes \in RxBuffers : TransportWritesBuffer(bytes) /\ UNCHANGED <<history, pc>>

Spec == Init /\ [][Next]_vars


(***************************************************************************)
(* Recording specifications.  They run the same operations on fewer inputs *)
(* and keep every operation, with the state it returned in, in history.    *)
(***************************************************************************)
Snapshot ==
    [op |-> op', iface |-> sBluetoothIap2Interface', obj |-> mCallbacksObj',
     refs |-> globalRefs', hal |-> halInstances', designated |-> callbackEnv]

Recorded(A) ==
    /\ Len(history) < MaxHistory
    /\ A
    /\ history' = Append(history, Snapshot)
    /\ UNCHANGED pc

JAddr1 == ToJBytes(Addr1)

\* initialize and cleanup in every order and with every outcome, and one
\* request of each kind.
LifecycleNext ==
    \/ \E profile \in {NULL, Iap2Interface} :
         \E status \in StatusesIf(getBluetoothInterface # NULL /\ profile # NULL) :
           Recorded(initializeNative(profile, status))
    \/ Recorded(cleanupNative)
    \/ \E status \in StatusesIf(InterfaceReady) :
           Recorded(connectIap2Native(JAddr1, TRUE, status))
    \/ \E status \in StatusesIf(InterfaceReady) :
           Recorded(disconnectIap2Native(JAddr1, TRUE, status))
    \/ \E status \in StatusesIf(InterfaceReady) :
           Recorded(sendDataNative(1, <<0>>, TRUE, status, <<>>))

LifecycleSpec == Init /\ [][LifecycleNext]_vars

\* One session: the callback thread attaches, initialize succeeds once,
\* connects are forwarded, and the transport reports connection and service
\* states, before or after the callback thread is attached, the CONNECTING
\* state also from a thread that is not the callback thread.
RelayNext ==
    \/ callback_thread_event(1) /\ UNCHANGED <<history, pc>>
    \/ ~InterfaceReady /\ Recorded(initializeNative(Iap2Interface, "BT_STATUS_SUCCESS"))
    \/ \E address \in JAddrs :
           InterfaceReady /\ Recorded(connectIap2Native(address, TRUE, "BT_STATUS_SUCCESS"))
    \/ \E env \in Envs :
           Recorded(connection_state_callback("CONNECTING", Addr1, env, TRUE, FALSE))
    \/ \E bd_addr \in BdAddrs :
         \E allocOk \in OnlyIf(checkCallbackThread(1), TRUE) :
           Recorded(connection_state_callback("CONNECTED", bd_addr, 1, allocOk, FALSE))
    \/ \E state \in {"CONNECTED", "DISCONNECTED"} :
         \E fdOk \in OnlyIf(checkCallbackThread(1) /\ state = "CONNECTED", TRUE) :
           Recorded(service_state_callback(state, Addr1, 7, 1, TRUE, fdOk, FALSE))

RelaySpec == Init /\ [][RelayNext]_vars

\* Deliveries while the designated env changes: the callback thread
\* attaches, detaches and is replaced, and received data is reported from
\* either thread.
DeliveryNext ==
    \/ \E env \in Envs \cup {NULL} : callback_thread_event(env) /\ UNCHANGED <<history, pc>>
    \/ ~InterfaceReady /\ Recorded(initializeNative(Iap2Interface, "BT_STATUS_SUCCESS"))
    \/ \E env \in Envs : \E allocOk \in OnlyIf(checkCallbackThread(env), TRUE) :
           Recorded(data_callback(1, env, allocOk, FALSE))

DeliverySpec == Init /\ [][DeliveryNext]_vars

(***************************************************************************)
(* initializeNative and cleanupNative line by line.  The transport calls   *)
(* back on its own thread, so a callback may run between any two lines of  *)
(* the thread that initializes or cleans up.                               *)
(***************************************************************************)
Running(line, calls) == Op(pc, [line |-> line], calls, "running")

\* Lines 161-164 and 197-200: the native method is entered.
EnterNative(name, line, first) ==
    /\ pc = "idle"
    /\ IF getBluetoothInterface = NULL
       THEN /\ pc' = "idle"
            /\ op' = Op(name, [line |-> line], NoCalls, Void)
       ELSE /\ pc' = first
            /\ op' = Op(name, [line |-> line], NoCalls, "running")
    /\ UNCHANGED <<sBluetoothInterface, sBluetoothIap2Interface, mCallbacksObj,
                   sCallbackEnv, callbackEnv, globalRefs, nextRef, halInstances,
                   pendingException, nativeBuf, history>>

\* Lines 166-170 and 202-206.
ReleaseInterfaceStep(at, next) ==
    /\ pc = at
    /\ sBluetoothIap2Interface' = ReleaseInterface.iface
    /\ halInstances' = ReleaseInterface.hal
    /\ op' = Running(166, ReleaseInterface.calls)
    /\ pc' = next
    /\ UNCHANGED <<sBluetoothInterface, mCallbacksObj, sCallbackEnv, callbackEnv,
                   globalRefs, nextRef, pendingException, nativeBuf, history>>

\* Lines 172-176 and 208-212.
ReleaseCallbacksStep(at, next) ==
    /\ pc = at
    /\ mCallbacksObj' = ReleaseCallbacks.obj
    /\ globalRefs' = ReleaseCallbacks.refs
    /\ op' = Running(172, ReleaseCallbacks.calls)
    /\ pc' = next
    /\ UNCHANGED <<sBluetoothInterface, sBluetoothIap2Interface, sCallbackEnv,
                   callbackEnv, nextRef, halInstances, pendingException, nativeBuf,
                   history>>

\* Lines 178-182.
GetProfileInterfaceStep(profile) ==
    /\ pc = "initializeNative_178"
    /\ sBluetoothIap2Interface' = profile
    /\ op' = Running(178, <<[fn |-> "get_profile_interface", result |-> profile]>>)
    /\ pc' = IF profile = NULL THEN "idle" ELSE "initializeNative_184"
    /\ UNCHANGED <<sBluetoothInterface, mCallbacksObj, sCallbackEnv, callbackEnv,
                   globalRefs, nextRef, halInstances, pendingException, nativeBuf,
                   history>>

\* Lines 184-188: from a successful init() on, the transport holds the
\* callback table.
InitStep(status) ==
    /\ pc = "initializeNative_184"
    /\ sBluetoothIap2Interface' = InterfaceAfterInit(sBluetoothIap2Interface, status)
    /\ halInstances' = IF status = "BT_STATUS_SUCCESS" THEN halInstances + 1
                       ELSE halInstances
    /\ op' = Running(184, <<[fn |-> "init", status |-> status]>>)
    /\ pc' = IF InterfaceAfterInit(sBluetoothIap2Interface, status) = NULL
             THEN "idle" ELSE "initializeNative_190"
    /\ UNCHANGED <<sBluetoothInterface, mCallbacksObj, sCallbackEnv, callbackEnv,
                   globalRefs, nextRef, pendingException, nativeBuf, history>>

\* Line 190.
NewGlobalRefStep ==
    /\ pc = "initializeNative_190"
    /\ nextRef < MaxRefs
    /\ mCallbacksObj' = nextRef + 1
    /\ globalRefs' = globalRefs \cup {nextRef + 1}
    /\ nextRef' = nextRef + 1
    /\ op' = Running(190, <<[fn |-> "NewGlobalRef", ref |-> nextRef + 1]>>)
    /\ pc' = "idle"
    /\ UNCHANGED <<sBluetoothInterface, sBluetoothIap2Interface, sCallbackEnv,
                   callbackEnv, halInstances, pendingException, nativeBuf, history>>

\* The thread of the Java caller, one line at a time.
NativeThread ==
    \/ EnterNative("initializeNative", 161, "initializeNative_166")
    \/ ReleaseInterfaceStep("initializeNative_166", "initializeNative_172")
    \/ ReleaseCallbacksStep("initializeNative_172", "initializeNative_178")
    \/ \E profile \in {NULL, Iap2Interface} : GetProfileInterfaceStep(profile)
    \/ \E status \in Statuses : InitStep(status)
    \/ NewGlobalRefStep
    \/ EnterNative("cleanupNative", 197, "cleanupNative_202")
    \/ ReleaseInterfaceStep("cleanupNative_202", "cleanupNative_208")
    \/ ReleaseCallbacksStep("cleanupNative_208", "idle")

\* The transport's callback thread: each callback as a whole, on the
\* designated env or on another one.
CallbackThread ==
    \/ \E state \in {"CONNECTING", "CONNECTED"}, env \in Envs :
           connection_state_callback(state, Addr1, env, TRUE, FALSE)
    \/ \E state \in {"CONNECTED", "DISCONNECTED"}, env \in Envs :
           service_state_callback(state, Addr1, 7, env, TRUE, TRUE, FALSE)
    \/ \E env \in Envs : data_callback(1, env, TRUE, FALSE)
    \/ \E error_code \in ErrorCodes, error_string \in ErrorStrings, env \in Envs :
           error_callback(error_code, error_string, env, TRUE, FALSE)

InterleavedNext ==
    \/ NativeThread
    \/ CallbackThread /\ UNCHANGED <<history, pc>>
    \/ \E env \in Envs \cup {NULL} : callback_thread_event(env) /\ UNCHANGED <<history, pc>>

InterleavedSpec == Init /\ [][InterleavedNext]_vars

(***************************************************************************)
(* Properties.                                                             *)
(***************************************************************************)
RequestNames == {"connectIap2Native", "disconnectIap2Native", "sendDataNative"}
CallbackNames == {"connection_state_callback", "service_state_callback",
                  "data_callback", "error_callback"}

\* A step of the binding: the environment's steps change callbackEnv or
\* nativeBuf and leave op alone, the binding's steps do the opposite.
BindingStep == callbackEnv' = callbackEnv /\ nativeBuf' = nativeBuf

\* The listener call c reports the event operation o was invoked with.
ReportsEventOf(c, o) ==
    /\ c.obj = mCallbacksObj
    /\ CASE o.name = "connection_state_callback" ->
              /\ c.method = "onConnectionStateChanged"
              /\ c.args.state = o.in.state
              /\ ToUChars(Contents(c.args.addr)) = o.in.bd_addr
         [] o.name = "service_state_callback" ->
              /\ c.method = "onServiceStateChanged"
              /\ c.args.state = o.in.state
              /\ ToUChars(Contents(c.args.addr)) = o.in.bd_addr
         [] o.name = "data_callback" ->
              /\ c.method = "onDataRx"
              /\ c.args.len = o.in.len
         [] o.name = "error_callback" ->
              /\ c.method = "onError"
              /\ c.args.error_code = o.in.error_code
         [] OTHER -> FALSE

\* An operation calls the listener at most once, and only for its own event.
ListenerCallsAreOwn(o) ==
    /\ Len(ListenerCalls(o.calls)) <= 1
    /\ \A i \in 1..Len(ListenerCalls(o.calls)) : ReportsEventOf(ListenerCalls(o.calls)[i], o)

\* C1: while the interface pointer is null (nothing initialized yet, an
\* initialize that failed, a cleanup that ran), connect, disconnect and
\* sendData return JNI_FALSE and make no call into the native transport.
C1_UninitializedRequestsFail ==
    [][(BindingStep /\ sBluetoothIap2Interface = NULL /\ op'.name \in RequestNames)
          => (op'.ret = "JNI_FALSE" /\ Len(TransportCalls(op'.calls)) = 0
              /\ Len(op'.calls) = 0)]_vars

C1_Witness ==
    /\ op.name = "sendDataNative"
    /\ op.in.len = 2 /\ Len(op.in.data) = 2
    /\ nextRef = 0 /\ sBluetoothIap2Interface = NULL
    /\ op.ret = "JNI_FALSE"

\* C2: a callback of any of the four kinds that runs on an env other than
\* the designated one, or while the designated env is null, makes no call at
\* all (so none on the listener), leaves the exception state alone and
\* returns; and no operation ever calls the listener for an event other than
\* the one it was invoked with, so a dropped event is never delivered later.
C2_WrongContextDropped ==
    [][(BindingStep /\ op'.name \in CallbackNames)
          => /\ (callbackEnv # op'.in.env \/ callbackEnv = NULL)
                   => /\ Len(op'.calls) = 0
                      /\ op'.ret = Void
                      /\ pendingException' = pendingException
                      /\ mCallbacksObj' = mCallbacksObj
             /\ ListenerCallsAreOwn(op')]_vars

C2_Witness ==
    /\ op.name = "data_callback"
    /\ op.in.env \in Envs /\ sCallbackEnv \in Envs /\ op.in.env # sCallbackEnv
    /\ callbackEnv = sCallbackEnv
    /\ Len(op.calls) = 0

\* C4 (the claim as stated): sendData(N, B) on an initialized binding with
\* fewer than N bytes in B raises the argument error and sends nothing.
C4_ShortBufferRejected ==
    [][(BindingStep /\ sBluetoothIap2Interface # NULL /\ op'.name = "sendDataNative"
        /\ Len(op'.in.data) < op'.in.len)
          => /\ Len(CallsTo(op'.calls, "jniThrowIOException")) = 1
             /\ Len(TransportCalls(op'.calls)) = 0]_vars

\* C9: the array delivered with onDataRx(N, .) has length N and holds the
\* first N bytes the transport's buffer held at the time of the callback,
\* whatever the transport writes into its buffer afterwards.
C9_DataRxIsCopy ==
    (op.name = "data_callback" /\ Len(ListenerCalls(op.calls)) > 0)
       => LET c == ListenerCalls(op.calls)[1]
          IN  /\ c.method = "onDataRx"
              /\ c.args.len = op.in.len
              /\ Len(Contents(c.args.buf)) = op.in.len
              /\ \A i \in 1..op.in.len :
                    ToUChar(Contents(c.args.buf)[i]) = op.in.data[i]

C9_Witness ==
    /\ op.name = "data_callback" /\ Len(ListenerCalls(op.calls)) = 1
    /\ op.in.len = 1 /\ Len(op.in.data) = 2
    /\ op.in.data[1] # nativeBuf[1]

\* An initialize that reached init() and got a non-success status back.
InitRejected(o) ==
    o.name = "initializeNative" /\ o.in.status \in Statuses \ {"BT_STATUS_SUCCESS"}

\* C10: when init() returns a non-success status, initialize returns with
\* the interface pointer null and no listener reference held, whether or
\* not an instance was active before; the requests that follow return
\* JNI_FALSE without a transport call.
C10_RejectedInitLeavesUninitialized ==
    [][BindingStep =>
         /\ InitRejected(op')
               => /\ sBluetoothIap2Interface' = NULL
                  /\ mCallbacksObj' = NULL
                  /\ globalRefs' = {}
                  /\ Len(CallsTo(op'.calls, "NewGlobalRef")) = 0
         /\ (InitRejected(op) /\ op'.name \in RequestNames)
               => (op'.ret = "JNI_FALSE" /\ Len(TransportCalls(op'.calls)) = 0)]_vars

C10_Witness ==
    /\ InitRejected(op)
    /\ Len(CallsTo(op.calls, "cleanup")) = 1
    /\ Len(CallsTo(op.calls, "DeleteGlobalRef")) = 1
    /\ sBluetoothIap2Interface = NULL /\ mCallbacksObj = NULL


(***************************************************************************)
(* Properties of recorded runs.                                            *)
(***************************************************************************)
Entries == 1..Len(history)
Delivered(e) == ListenerCalls(e.op.calls)
IsCallback(e) == e.op.name \in CallbackNames
IsReport(e, name, state) == e.op.name = name /\ e.op.in.state = state
\* The callback ran on the env that was the designated one when it ran.
OnDesignated(e) == e.designated # NULL /\ e.op.in.env = e.designated

\* C5: a cleanup that directly follows a cleanup calls neither the native
\* cleanup nor DeleteGlobalRef and returns in the state the first one left.
C5_SecondCleanupIsNoOp ==
    \A i \in Entries : \A j \in Entries :
       (j = i + 1 /\ history[i].op.name = "cleanupNative"
                  /\ history[j].op.name = "cleanupNative")
          => /\ Len(history[j].op.calls) = 0
             /\ history[j].iface = history[i].iface
             /\ history[j].obj = history[i].obj
             /\ history[j].refs = history[i].refs
             /\ history[j].hal = history[i].hal

C5_Witness ==
    \E i \in Entries : \E j \in Entries :
       /\ j = i + 1
       /\ history[i].op.name = "cleanupNative" /\ history[j].op.name = "cleanupNative"
       /\ Fns(history[i].op.calls) = <<"cleanup", "DeleteGlobalRef">>
       /\ Len(history[j].op.calls) = 0

\* The DeleteGlobalRef calls of the recorded run, in order.
RECURSIVE DeletedRefs(_)
DeletedRefs(h) ==
    IF h = <<>> THEN <<>>
    ELSE LET calls == CallsTo(h[Len(h)].op.calls, "DeleteGlobalRef")
         IN  DeletedRefs(SubSeq(h, 1, Len(h) - 1)) \o [i \in 1..Len(calls) |-> calls[i].ref]

\* C6: at most one native instance is active and at most one listener
\* reference is held, the one in mCallbacksObj; an initialize that finds a
\* listener registered deletes that reference before it creates the new one;
\* no reference is deleted twice.
C6_OneInstanceOneListener ==
    /\ halInstances <= 1
    /\ Cardinality(globalRefs) <= 1
    /\ globalRefs = (IF mCallbacksObj = NULL THEN {} ELSE {mCallbacksObj})
    /\ \A i \in Entries : \A j \in Entries :
          (j = i + 1 /\ history[j].op.name = "initializeNative" /\ history[i].obj # NULL
           /\ Len(CallsTo(history[j].op.calls, "NewGlobalRef")) > 0)
             => \E d \in 1..Len(history[j].op.calls) : \E n \in 1..Len(history[j].op.calls) :
                   /\ d < n
                   /\ history[j].op.calls[d].fn = "DeleteGlobalRef"
                   /\ history[j].op.calls[d].ref = history[i].obj
                   /\ history[j].op.calls[n].fn = "NewGlobalRef"
                   /\ history[j].op.calls[n].ref # history[i].obj
    /\ \A a \in 1..Len(DeletedRefs(history)) : \A b \in 1..Len(DeletedRefs(history)) :
          a # b => DeletedRefs(history)[a] # DeletedRefs(history)[b]

C6_Witness ==
    \E j \in Entries :
       /\ history[j].op.name = "initializeNative"
       /\ Len(CallsTo(history[j].op.calls, "DeleteGlobalRef")) = 1
       /\ Len(CallsTo(history[j].op.calls, "NewGlobalRef")) = 1
       /\ Cardinality(globalRefs) = 1 /\ halInstances = 1

\* A listener call as the listener sees it: the method, the state, the
\* address bytes and the descriptor the handle wraps.
SeenEvent(c) ==
    [method |-> c.method, state |-> c.args.state,
     addr   |-> ToUChars(Contents(c.args.addr)),
     handle |-> IF c.method = "onServiceStateChanged" THEN c.args.fileDescriptor ELSE NullObj]

\* What the listener is to see of a reported state: nothing when the
\* callback ran off the designated env or an allocation in it failed.
ExpectedEvents(e) ==
    IF e.op.name = "connection_state_callback"
    THEN IF OnDesignated(e) /\ e.op.in.allocOk
         THEN <<[method |-> "onConnectionStateChanged", state |-> e.op.in.state,
                 addr |-> e.op.in.bd_addr, handle |-> NullObj]>>
         ELSE <<>>
    ELSE IF e.op.name = "service_state_callback"
    THEN IF OnDesignated(e) /\ e.op.in.allocOk
            /\ (e.op.in.state = "CONNECTED" => e.op.in.fdOk)
         THEN <<[method |-> "onServiceStateChanged", state |-> e.op.in.state,
                 addr |-> e.op.in.bd_addr,
                 handle |-> IF e.op.in.state = "CONNECTED" THEN <<e.op.in.fd>> ELSE NullObj]>>
         ELSE <<>>
    ELSE <<>>

RECURSIVE ListenerLog(_)
ListenerLog(h) ==
    IF h = <<>> THEN <<>>
    ELSE ListenerLog(SubSeq(h, 1, Len(h) - 1))
           \o [i \in 1..Len(Delivered(h[Len(h)])) |-> SeenEvent(Delivered(h[Len(h)])[i])]

RECURSIVE ExpectedLog(_)
ExpectedLog(h) ==
    IF h = <<>> THEN <<>>
    ELSE ExpectedLog(SubSeq(h, 1, Len(h) - 1)) \o ExpectedEvents(h[Len(h)])

\* initialize, connect(Addr1), then the three reports of the scenario.
Scenario(h) ==
    /\ Len(h) = 5
    /\ h[1].op.name = "initializeNative" /\ h[1].obj # NULL
    /\ h[2].op.name = "connectIap2Native" /\ ToUChars(h[2].op.in.address) = Addr1
    /\ IsReport(h[3], "connection_state_callback", "CONNECTING") /\ h[3].op.in.bd_addr = Addr1
    /\ IsReport(h[4], "connection_state_callback", "CONNECTED") /\ h[4].op.in.bd_addr = Addr1
    /\ IsReport(h[5], "service_state_callback", "CONNECTED") /\ h[5].op.in.bd_addr = Addr1
    /\ h[5].op.in.fd = 7

ScenarioEvents ==
    <<[method |-> "onConnectionStateChanged", state |-> "CONNECTING", addr |-> Addr1,
       handle |-> NullObj],
      [method |-> "onConnectionStateChanged", state |-> "CONNECTED", addr |-> Addr1,
       handle |-> NullObj],
      [method |-> "onServiceStateChanged", state |-> "CONNECTED", addr |-> Addr1,
       handle |-> <<7>>]>>

\* C7 (the claim as stated): after initialize and connect, whenever the
\* transport has reported CONNECTING, CONNECTED and service CONNECTED with
\* fd 7, the listener has received the three events, in that order.
C7_ScenarioAlwaysDelivered ==
    Scenario(history) => ListenerLog(history) = ScenarioEvents

\* C7 (amended): the listener's events are, in order, the reported states
\* whose callback ran on the designated env with its allocations succeeding,
\* each delivered inside its own callback, a CONNECTED service state with a
\* handle that wraps the reported fd; the scenario's three events arrive in
\* the order reported when its three callbacks ran so.
C7_RelayInOrder ==
    /\ ListenerLog(history) = ExpectedLog(history)
    /\ \A i \in Entries :
          /\ Len(Delivered(history[i])) <= 1
          /\ \A k \in 1..Len(Delivered(history[i])) :
                Delivered(history[i])[k].obj = history[i].obj /\ history[i].obj # NULL
    /\ (Scenario(history) /\ \A i \in 3..5 : OnDesignated(history[i])
                                             /\ history[i].op.in.allocOk
        /\ history[5].op.in.fdOk)
          => ListenerLog(history) = ScenarioEvents

C7_Witness ==
    Scenario(history) /\ ListenerLog(history) = ScenarioEvents

\* The CONNECTED reports for an address that a forwarded connect named.
ConfirmedConnects ==
    {j \in Entries :
        /\ IsReport(history[j], "connection_state_callback", "CONNECTED")
        /\ \E i \in 1..(j - 1) :
              /\ history[i].op.name = "connectIap2Native"
              /\ history[i].op.ret = "JNI_TRUE"
              /\ ToUChars(history[i].op.in.address) = history[j].op.in.bd_addr}

\* The listener call is onConnectionStateChanged(CONNECTED, the bytes of a).
IsConnectedEvent(c, a) ==
    /\ c.method = "onConnectionStateChanged"
    /\ c.args.state = "CONNECTED"
    /\ Len(Contents(c.args.addr)) = AddrLen
    /\ \A b \in 1..AddrLen : ToUChar(Contents(c.args.addr)[b]) = a[b]

\* C8 (the claim as stated): an accepted connect(addr) followed by the
\* transport's report of CONNECTED for addr yields exactly one
\* onConnectionStateChanged(CONNECTED, addr) with the reported bytes.
C8_ConfirmedConnectAlwaysDelivered ==
    \A j \in ConfirmedConnects :
       /\ Len(Delivered(history[j])) = 1
       /\ IsConnectedEvent(Delivered(history[j])[1], history[j].op.in.bd_addr)

\* C8 (amended): such a report yields exactly one
\* onConnectionStateChanged(CONNECTED, addr) with the reported bytes when its
\* callback runs on the designated env and the address array is allocated,
\* and no event otherwise.
C8_ConfirmedConnectDeliveredOnce ==
    \A j \in ConfirmedConnects :
       IF OnDesignated(history[j]) /\ history[j].op.in.allocOk
       THEN /\ Len(Delivered(history[j])) = 1
            /\ IsConnectedEvent(Delivered(history[j])[1], history[j].op.in.bd_addr)
       ELSE Len(Delivered(history[j])) = 0

C8_Witness ==
    \E j \in ConfirmedConnects :
       /\ Len(Delivered(history[j])) = 1
       /\ history[j].op.in.bd_addr = Addr1
       /\ Contents(Delivered(history[j])[1].args.addr) = <<-86, -69, -52, -35, -18, -1>>

\* The handles constructed so far, and the handles released so far.
RECURSIVE HandlesConstructed(_)
HandlesConstructed(h) ==
    IF h = <<>> THEN 0
    ELSE HandlesConstructed(SubSeq(h, 1, Len(h) - 1))
           + Len(SelectSeq(h[Len(h)].op.calls,
                           LAMBDA c : c.fn = "jniCreateFileDescriptor" /\ c.ok))

ReleasesHandle(c) ==
    \/ c.fn = "close"
    \/ c.fn = "DeleteLocalRef" /\ c.local = "fileDescriptor"

RECURSIVE HandlesReleased(_)
HandlesReleased(h) ==
    IF h = <<>> THEN 0
    ELSE HandlesReleased(SubSeq(h, 1, Len(h) - 1))
           + Len(SelectSeq(h[Len(h)].op.calls, ReleasesHandle))

\* The service state the listener was last told, DISCONNECTED before any.
ServiceStateSeen(h) ==
    LET seen == SelectSeq(ListenerLog(h), LAMBDA v : v.method = "onServiceStateChanged")
    IN  IF seen = <<>> THEN "DISCONNECTED" ELSE seen[Len(seen)].state

C11_CleanupLeavesNothing ==
    [][(BindingStep /\ op'.name = "cleanupNative")
          => /\ sBluetoothIap2Interface' = NULL
             /\ mCallbacksObj' = NULL
             /\ halInstances' = 0
             /\ globalRefs' = {}
             /\ Len(CallsTo(op'.calls, "cleanup"))
                   = (IF sBluetoothIap2Interface # NULL THEN 1 ELSE 0)
             /\ CallsTo(op'.calls, "DeleteGlobalRef")
                   = (IF mCallbacksObj # NULL
                      THEN <<[fn |-> "DeleteGlobalRef", ref |-> mCallbacksObj]>>
                      ELSE <<>>)]_vars

C11_Witness ==
    /\ op.name = "cleanupNative"
    /\ Fns(op.calls) = <<"cleanup", "DeleteGlobalRef">>
    /\ sBluetoothIap2Interface = NULL /\ mCallbacksObj = NULL
    /\ halInstances = 0 /\ globalRefs = {}

\* The listener call of operation o, if any, threw.
ListenerThrew(o) ==
    \E i \in 1..Len(o.calls) : o.calls[i].fn = "CallVoidMethod" /\ o.calls[i].throws

\* The allocations callback o made before its listener call succeeded.
AllocationsOk(o) ==
    CASE o.name = "connection_state_callback" -> o.in.allocOk
      [] o.name = "service_state_callback" ->
            o.in.allocOk /\ (o.in.state = "CONNECTED" => o.in.fdOk)
      [] o.name = "data_callback" -> o.in.allocOk
      [] OTHER -> TRUE

\* C12: in each of the four callbacks, an exception the listener throws is
\* cleared after the listener call and before the callback returns, so no
\* exception is pending on return to the transport; and the callback that
\* follows a delivery that threw still calls the listener when it runs on
\* the designated env and its allocations succeed.
C12_ListenerExceptionCleared ==
    [][(BindingStep /\ op'.name \in CallbackNames)
          => /\ \A i \in 1..Len(op'.calls) :
                   (op'.calls[i].fn = "CallVoidMethod" /\ op'.calls[i].throws)
                      => /\ \E j \in (i + 1)..Len(op'.calls) :
                               op'.calls[j].fn = "ExceptionClear"
                         /\ ~pendingException'
                         /\ op'.ret = Void
             /\ (ListenerThrew(op) /\ checkCallbackThread(op'.in.env) /\ AllocationsOk(op'))
                   => Len(ListenerCalls(op'.calls)) = 1]_vars

C12_Witness ==
    /\ op.name = "service_state_callback"
    /\ op.in.state = "CONNECTED"
    /\ ListenerThrew(op)
    /\ Len(CallsTo(op.calls, "ExceptionClear")) = 1
    /\ ~pendingException

\* C13: every onServiceStateChanged call carries a FileDescriptor object if
\* and only if its state is CONNECTED, the object wrapping the fd the
\* transport reported; a service-state callback whose
\* jniCreateFileDescriptor fails makes no listener call.
C13_HandleIffConnectedEvent ==
    [][(BindingStep /\ op'.name \in CallbackNames)
          => /\ \A i \in 1..Len(ListenerCalls(op'.calls)) :
                   LET c == ListenerCalls(op'.calls)[i]
                   IN  c.method = "onServiceStateChanged"
                          => /\ (c.args.fileDescriptor # NullObj) <=> (c.args.state = "CONNECTED")
                             /\ c.args.state = "CONNECTED"
                                   => c.args.fileDescriptor = <<op'.in.fd>>
             /\ (\E i \in 1..Len(op'.calls) :
                    op'.calls[i].fn = "jniCreateFileDescriptor" /\ ~op'.calls[i].ok)
                   => Len(ListenerCalls(op'.calls)) = 0]_vars

\* CONNECTED was reported and the handle could not be constructed.
C13_Witness ==
    /\ op.name = "service_state_callback"
    /\ op.in.state = "CONNECTED" /\ ~op.in.fdOk
    /\ Fns(op.calls) = <<"NewByteArray", "jniCreateFileDescriptor", "DeleteLocalRef">>

\* The native function each request forwards to.
TransportFnOf(name) ==
    CASE name = "connectIap2Native" -> "connect"
      [] name = "disconnectIap2Native" -> "disconnect"
      [] OTHER -> "send_data"

\* The native call c passes on what request o was called with: the six
\* address bytes, or the declared length and the bytes of the array.
ForwardsArguments(c, o) ==
    IF o.name = "sendDataNative"
    THEN /\ c.len = o.in.len
         /\ Len(c.bytes) = o.in.len
         /\ \A i \in 1..Len(c.bytes) : i <= Len(o.in.data) => ToJByte(c.bytes[i]) = o.in.data[i]
    ELSE /\ Len(c.addr) = AddrLen
         /\ \A i \in 1..AddrLen : ToJByte(c.addr[i]) = o.in.address[i]

\* C14: on an initialized binding, a connect, disconnect or sendData whose
\* array is readable makes one call, to the native function of its kind,
\* with the caller's address bytes or declared length and array bytes, and
\* returns JNI_TRUE exactly when that call returned BT_STATUS_SUCCESS.
C14_OneNativeCallPerRequest ==
    [][(BindingStep /\ op'.name \in RequestNames /\ sBluetoothIap2Interface # NULL
          /\ op'.in.readable)
          => /\ Len(op'.calls) = 1
             /\ op'.calls[1].fn = TransportFnOf(op'.name)
             /\ ForwardsArguments(op'.calls[1], op')
             /\ (op'.ret = "JNI_TRUE") <=> (op'.calls[1].status = "BT_STATUS_SUCCESS")
             /\ op'.ret \in {"JNI_TRUE", "JNI_FALSE"}]_vars

\* A send the transport rejected: one call, JNI_FALSE.
C14_Witness ==
    /\ op.name = "sendDataNative"
    /\ op.in.len = 2 /\ op.in.data = <<0, -56>>
    /\ Len(op.calls) = 1
    /\ op.calls[1].fn = "send_data" /\ op.calls[1].bytes = <<0, 200>>
    /\ op.calls[1].status = "BT_STATUS_FAIL"
    /\ op.ret = "JNI_FALSE"

\* The state events among the listener calls of an operation.
StateEvents(calls) ==
    SelectSeq(ListenerCalls(calls),
              LAMBDA c : c.method \in {"onConnectionStateChanged", "onServiceStateChanged"})

\* The callback that reports the state events of a listener method.
CallbackOf(method) ==
    IF method = "onConnectionStateChanged" THEN "connection_state_callback"
    ELSE "service_state_callback"

\* C15: initializeNative, cleanupNative, connect, disconnect and sendData
\* never call the listener; a state event reaches the listener only inside
\* the transport's callback of that kind, at most one per callback, and
\* with the state that callback was invoked with.
C15_StateEventsOnlyFromTransport ==
    [][BindingStep
          => /\ op'.name \notin CallbackNames => Len(ListenerCalls(op'.calls)) = 0
             /\ Len(StateEvents(op'.calls)) <= 1
             /\ \A i \in 1..Len(StateEvents(op'.calls)) :
                   /\ op'.name = CallbackOf(StateEvents(op'.calls)[i].method)
                   /\ StateEvents(op'.calls)[i].args.state = op'.in.state]_vars

\* A connect the transport accepted: the listener is registered and was not
\* called.
C15_Witness ==
    /\ op.name = "connectIap2Native" /\ op.ret = "JNI_TRUE"
    /\ mCallbacksObj # NULL
    /\ Len(ListenerCalls(op.calls)) = 0

\* C16: a callback calls the listener exactly when the env it runs on is the
\* designated env at the time of that callback, whatever env earlier
\* callbacks were checked against: once the designated env has changed from
\* A to B, a callback on A is dropped and a callback on B is delivered
\* (unless its array cannot be allocated).
C16_ContextResolvedPerDelivery ==
    /\ \A i \in Entries :
          IsCallback(history[i]) /\ AllocationsOk(history[i].op)
             => (Len(Delivered(history[i])) = 1 <=> OnDesignated(history[i]))
    /\ \A i \in Entries : \A j \in Entries :
          (i < j /\ IsCallback(history[i]) /\ IsCallback(history[j])
           /\ OnDesignated(history[i]) /\ history[j].designated # NULL
           /\ history[j].designated # history[i].designated)
             => /\ history[j].op.in.env = history[i].designated
                      => Len(history[j].op.calls) = 0
                /\ (history[j].op.in.env = history[j].designated
                    /\ AllocationsOk(history[j].op))
                      => Len(Delivered(history[j])) = 1

\* Delivered on env 1 while 1 was designated; then, with 2 designated,
\* dropped on env 1 and delivered on env 2.
C16_Witness ==
    \E i \in Entries : \E j \in Entries : \E k \in Entries :
       /\ i < j /\ j < k
       /\ IsCallback(history[i]) /\ IsCallback(history[j]) /\ IsCallback(history[k])
       /\ history[i].designated = 1 /\ history[i].op.in.env = 1
       /\ Len(Delivered(history[i])) = 1
       /\ history[j].designated = 2 /\ history[j].op.in.env = 1
       /\ Len(history[j].op.calls) = 0
       /\ history[k].designated = 2 /\ history[k].op.in.env = 2
       /\ Len(Delivered(history[k])) = 1

\* The init() and cleanup() calls of the recorded run, in order.
RECURSIVE NativeLifecycle(_)
NativeLifecycle(h) ==
    IF h = <<>> THEN <<>>
    ELSE NativeLifecycle(SubSeq(h, 1, Len(h) - 1))
           \o SelectSeq(h[Len(h)].op.calls, LAMBDA c : c.fn \in {"init", "cleanup"})

InitSucceeded(c) == c.fn = "init" /\ c.status = "BT_STATUS_SUCCESS"

\* An initialize that finds an instance active calls cleanup() first, before
\* the profile lookup and init().
CleanupBeforeInit ==
    \A i \in Entries : \A j \in Entries :
       (j = i + 1 /\ history[j].op.name = "initializeNative" /\ history[i].iface # NULL)
          => /\ Len(history[j].op.calls) > 0
             /\ history[j].op.calls[1].fn = "cleanup"
             /\ Len(CallsTo(history[j].op.calls, "cleanup")) = 1

\* cleanup() is called only for the instance whose init() succeeded last,
\* and once.
CleanupOnlyAfterSuccessfulInit ==
    \A n \in 1..Len(NativeLifecycle(history)) :
       NativeLifecycle(history)[n].fn = "cleanup"
          => n > 1 /\ InitSucceeded(NativeLifecycle(history)[n - 1])

\* C17 (the claim as stated): re-initialization cleans up the old instance
\* before init(); init() is never called twice without a cleanup() in
\* between; cleanup() is never called for an instance whose init() failed or
\* that was cleaned up already.
C17_InitNeverTwiceWithoutCleanup ==
    /\ CleanupBeforeInit
    /\ \A n \in 1..Len(NativeLifecycle(history)) :
          (n > 1 /\ NativeLifecycle(history)[n].fn = "init")
             => NativeLifecycle(history)[n - 1].fn = "cleanup"
    /\ CleanupOnlyAfterSuccessfulInit

\* C17 (amended): re-initialization cleans up the old instance before
\* init(); init() is never called after an init() that succeeded without a
\* cleanup() in between, while an init() that failed is followed by the next
\* init() with no cleanup(); cleanup() is never called for an instance whose
\* init() failed or that was cleaned up already.
C17_SuccessfulInitThenCleanup ==
    /\ CleanupBeforeInit
    /\ \A n \in 1..Len(NativeLifecycle(history)) :
          (n > 1 /\ NativeLifecycle(history)[n].fn = "init")
             => \/ NativeLifecycle(history)[n - 1].fn = "cleanup"
                \/ /\ NativeLifecycle(history)[n - 1].fn = "init"
                   /\ ~InitSucceeded(NativeLifecycle(history)[n - 1])
    /\ CleanupOnlyAfterSuccessfulInit

\* A re-initialization of an active instance, and an init() that follows a
\* failed one.
C17_Witness ==
    /\ \E j \in Entries :
          /\ j > 1 /\ history[j - 1].iface # NULL
          /\ Fns(history[j].op.calls)
                = <<"cleanup", "DeleteGlobalRef", "get_profile_interface", "init", "NewGlobalRef">>
    /\ \E n \in 2..Len(NativeLifecycle(history)) :
          /\ NativeLifecycle(history)[n].fn = "init"
          /\ NativeLifecycle(history)[n - 1].fn = "init"

\* The local references operation o created and did not delete before it
\* returned.
LocalsCreated(o) ==
    {o.calls[i].local : i \in {k \in 1..Len(o.calls) :
        o.calls[k].fn \in {"NewByteArray", "jniCreateFileDescriptor", "NewStringUTF"}
        /\ o.calls[k].ok}}

LocalsDeleted(o) ==
    {o.calls[i].local : i \in {k \in 1..Len(o.calls) : o.calls[k].fn = "DeleteLocalRef"}}

LocalsLeft(o) == LocalsCreated(o) \ LocalsDeleted(o)

\* C18 (the claim as stated): when a callback returns, every local
\* reference it created, the address array and the FileDescriptor of a
\* CONNECTED service state among them, has been deleted, so the binding
\* holds no reference to the handle after the event was delivered.
C18_NoReferenceLeftAfterCallback ==
    [][(BindingStep /\ op'.name \in CallbackNames) => LocalsLeft(op') = {}]_vars

\* C19 (the claim as stated): whenever a callback calls the listener, while
\* initializeNative or cleanupNative is running on another thread or not,
\* the object it calls is a listener reference that is held: never null and
\* never a reference that was deleted.
C19_ListenerRegisteredWhenCalled ==
    [][(BindingStep /\ op'.name \in CallbackNames)
          => \A i \in 1..Len(ListenerCalls(op'.calls)) :
                /\ ListenerCalls(op'.calls)[i].obj # NULL
                /\ ListenerCalls(op'.calls)[i].obj \in globalRefs]_vars

\* C20: whenever initializeNative or cleanupNative has returned, after any
\* sequence of them and whatever the module lookup, the profile lookup and
\* init() returned, the interface pointer is non-null exactly when the
\* listener reference is non-null.
C20_InterfaceIffListener ==
    /\ (sBluetoothIap2Interface # NULL) <=> (mCallbacksObj # NULL)
    /\ \A i \in Entries : (history[i].iface # NULL) <=> (history[i].obj # NULL)

\* A session was active, an initialize whose init() failed left neither, and
\* the next initialize retained both again.
C20_Witness ==
    /\ sBluetoothIap2Interface # NULL /\ mCallbacksObj # NULL
    /\ \E i \in Entries : \E j \in Entries :
          /\ j = i + 1
          /\ history[i].iface # NULL /\ history[i].obj # NULL
          /\ history[j].op.name = "initializeNative"
          /\ history[j].op.in.status = "BT_STATUS_FAIL"
          /\ history[j].iface = NULL /\ history[j].obj = NULL

====
